---- MODULE Spec2Model ----
(***************************************************************************)
(* Asynchronous database execution layer: the delay thread (Worker) of     *)
(* SqlDelayThread.cpp and the operations, result queue and query holder of *)
(* SqlOperations.cpp.                                                      *)
(***************************************************************************)
EXTENDS Integers, Sequences, FiniteSets, TLC

\* ---------------------------------------------------------------- bounds
MaxOps == 2          \* operations producers submit to the Worker's queues
MaxShared == 1       \* operations submitted while a second thread uses the connection
MaxAsync == 1        \* operations submitted while the result queue's owner is followed
MaxBatch == 1        \* operations submitted to a Worker whose holder has any shape
MaxStop == 1         \* operations submitted to the Worker whose shutdown is followed
MaxMembers == 2      \* members of one SqlTransaction
MaxCallbacks == 3    \* callbacks Workers push onto the result queue
MaxTimeout == 1      \* largest budget passed to Update, in ms
MaxElapsed == 2      \* longest time one Update is followed for, in ms
MaxSize == 2         \* largest size given to SqlQueryHolder::SetSize
MaxSets == 2         \* SetQuery/SetPQuery successes followed on one holder
MAX_QUERY_LEN == 3   \* size of SetPQuery's buffer, scaled down
PingIntervall == 10  \* m_dbEngine->GetPingIntervall(), in ms

loopSleepms == 10
pingEveryLoop == PingIntervall \div loopSleepms

\* ------------------------------------------------------------- vocabulary
Threads == {"worker", "direct"}
NoThread == "nobody"
Kinds == {"plain", "prepared", "txn", "query", "holder"}
\* an operation: followed tells whether the result queue it is bound to
\* (m_queue) and the holder it works on (m_holder) are the ones the model
\* keeps; an operation that is not followed has a queue and a holder of its own
NoOp == [id |-> 0, kind |-> "none", serial |-> FALSE, followed |-> FALSE]
NoResult == "null"
Results == {NoResult, "rows"}
\* a char const*: nullptr, or the characters before the terminating NUL
NoText == [null |-> TRUE, chars |-> <<>>]
Text(chars) == [null |-> FALSE, chars |-> chars]

VARIABLES
    m_running,            \* SqlDelayThread::m_running
    m_delayQueue,         \* the Database's Delayed Queue
    m_serialDelayQueue,   \* SqlDelayThread::m_serialDelayQueue
    wpc,                  \* the Worker's position in run() / ~SqlDelayThread()
    inDtor,               \* ProcessRequests was called by the destructor
    loopCounter,          \* run()'s loopCounter
    ex,                   \* per thread: the Operation being executed and where Execute is
    guard,                \* the Connection Guard (SqlConnection::Lock)
    nextOp,               \* operations constructed so far by producers
    executed,             \* operations in the order the Worker called Execute
    deleted,              \* per id: times the Worker deleted the operation
    inbound,              \* SqlResultQueue's inbound channel
    nextCb,               \* callbacks constructed so far
    answered,             \* per callback: what conn->Query returned to its SqlQuery
    m_queries,            \* SqlQueryHolder::m_queries
    threadUnsafeWaitingQueries, \* SqlResultQueue::_threadUnsafeWaitingQueries
    numUnsafeQueries,     \* SqlResultQueue::numUnsafeQueries
    m_callbackThreads,    \* tasks handed to the SqlResultQueue's thread pool
    upc,                  \* where the owning thread is in Update
    timeout,              \* Update's argument
    elapsed,              \* ms since Update read begin
    drained,              \* callbacks the unsafe loop of this Update executed
    delivery,             \* every callback Execute(), in order: id, result, thread
    leftOver,             \* ids an Update left in the unsafe queue when it returned
    rqcall,               \* the call on the result queue that has just returned
    begun,                \* callbacks pushed before the Update in progress began
    classified,           \* ids by what IsThreadSafe() returned for them in Update
    hcall,                \* the call on the holder that has just returned
    totalSets,            \* per slot: SetQuery/SetPQuery calls that succeeded since SetSize
    setsSinceTake,        \* the same, since the slot's last TakeResult
    released              \* per slot: times the text last stored in it was delete[]d

workerVars == <<m_running, m_delayQueue, m_serialDelayQueue, wpc, inDtor,
                loopCounter, nextOp, executed, deleted>>

connVars == <<ex, guard>>

pushVars == <<inbound, nextCb, answered>>

holderVars == <<m_queries, hcall, totalSets, setsSinceTake, released>>

rqVars == <<threadUnsafeWaitingQueries, numUnsafeQueries, m_callbackThreads, upc,
            timeout, elapsed, drained, delivery, leftOver, rqcall, begun, classified>>

vars == <<workerVars, connVars, pushVars, holderVars, rqVars>>

NoCall == [name |-> "none"]

\* in answered: the callback is the completion callback of a holder batch
Batch == "batch"

\* ------------------------------------------------------------ the queues
\* LockedQueue::add
QueueAdd(q, x) == Append(q, x)

\* LockedQueue::next: the front element
QueueFront(q) == Head(q)

\* LockedQueue::next: the queue after the front element was taken
QueuePop(q) == Tail(q)

\* ------------------------------------------------------ Connection Guard
FreeGuard == [owner |-> NoThread, depth |-> 0]

\* SqlConnection::Lock constructor: blocks unless free or held by the caller
CanLock(t) == guard.owner \in {NoThread, t}

LockAcquire(g, t) == [owner |-> t, depth |-> g.depth + 1]

\* SqlConnection::Lock destructor
LockRelease(g) == IF g.depth = 1 THEN FreeGuard ELSE [g EXCEPT !.depth = @ - 1]

\* ------------------------------------------------------------ Execute
Idle == [pc |-> "idle", op |-> NoOp, i |-> 0, n |-> 0, ret |-> FALSE, log |-> <<>>,
         cb |-> 0]

\* Execute is entered; cb keeps the number of the next callback to be pushed
Begin(op) == [pc |-> "start", op |-> op, i |-> 0, n |-> 0, ret |-> FALSE, log |-> <<>>,
              cb |-> IF op.followed THEN nextCb ELSE 0]

Finish(e, r) == [e EXCEPT !.pc = "done", !.ret = r]

\* the states of Execute in which the thread is inside a call on the connection
CallPcs == {"call", "begin", "mcall", "rollback", "commit", "query", "hquery"}

InOpCall(t) == ex[t].pc \in CallPcs

\* mutant: the statement is executed without LOCK_DB_CONN
StmtLock_NoGuard(t) ==
    /\ ex[t].pc = "start"
    /\ ex[t].op.kind \in {"plain", "prepared"}
    /\ guard' = [guard EXCEPT !.depth = @ + 1]
    /\ ex' = [ex EXCEPT ![t].pc = "call"]
    /\ UNCHANGED <<workerVars, pushVars, holderVars, rqVars>>

\* SqlPlainRequest::Execute / SqlPreparedRequest::Execute: LOCK_DB_CONN, then
\* conn->Execute(m_sql) / conn->ExecuteStmt(m_nIndex, *m_param)
StmtLock(t) ==
    /\ ex[t].pc = "start"
    /\ ex[t].op.kind \in {"plain", "prepared"}
    /\ CanLock(t)
    /\ guard' = LockAcquire(guard, t)
    /\ ex' = [ex EXCEPT ![t].pc = "call"]
    /\ UNCHANGED <<workerVars, pushVars, holderVars, rqVars>>

\* the connection call returns its success flag; the guard goes out of scope
StmtReturn(t) ==
    /\ ex[t].pc = "call"
    /\ \E r \in BOOLEAN : ex' = [ex EXCEPT ![t] = Finish(@, r)]
    /\ guard' = LockRelease(guard)
    /\ UNCHANGED <<workerVars, pushVars, holderVars, rqVars>>

\* SqlTransaction::Execute: an empty transaction succeeds without locking;
\* otherwise LOCK_DB_CONN once and conn->BeginTransaction(). n is
\* m_queue.size(), fixed when the transaction was built and first read here.
TxnStart(t) ==
    /\ ex[t].pc = "start"
    /\ ex[t].op.kind = "txn"
    /\ \E n \in 0..MaxMembers :
         IF n = 0
         THEN /\ ex' = [ex EXCEPT ![t] = Finish(@, TRUE)]
              /\ UNCHANGED guard
         ELSE /\ CanLock(t)
              /\ guard' = LockAcquire(guard, t)
              /\ ex' = [ex EXCEPT ![t].pc = "begin", ![t].n = n, ![t].i = 0,
                                  ![t].log = <<"begin">>]
    /\ UNCHANGED <<workerVars, pushVars, holderVars, rqVars>>

\* BeginTransaction returns; the loop starts at i = 0
TxnBeginReturn(t) ==
    /\ ex[t].pc = "begin"
    /\ ex' = [ex EXCEPT ![t].pc = "member"]
    /\ UNCHANGED <<workerVars, guard, pushVars, holderVars, rqVars>>

\* the loop test i < nItems, and pStmt->Execute(conn) for m_queue[i]: the member
\* takes the guard again and calls the connection; after the loop, commit
TxnMember(t) ==
    /\ ex[t].pc = "member"
    /\ IF ex[t].i < ex[t].n
       THEN /\ CanLock(t)
            /\ guard' = LockAcquire(guard, t)
            /\ ex' = [ex EXCEPT ![t].pc = "mcall",
                                ![t].log = Append(@, <<"exec", ex[t].i>>)]
       ELSE /\ ex' = [ex EXCEPT ![t].pc = "commit", ![t].log = Append(@, "commit")]
            /\ UNCHANGED guard
    /\ UNCHANGED <<workerVars, pushVars, holderVars, rqVars>>

\* mutant: a failing member does not end the loop
TxnMemberResult_NoAbort(e, r) ==
    [e EXCEPT !.pc = "member", !.i = @ + 1, !.log = Append(@, IF r THEN "ok" ELSE "fail")]

\* the member's Execute returns r: on failure roll back, otherwise ++i
TxnMemberResult(e, r) ==
    IF ~r
    THEN [e EXCEPT !.pc = "rollback", !.log = Append(Append(@, "fail"), "rollback")]
    ELSE [e EXCEPT !.pc = "member", !.i = @ + 1, !.log = Append(@, "ok")]

TxnMemberReturn(t) ==
    /\ ex[t].pc = "mcall"
    /\ \E r \in BOOLEAN : ex' = [ex EXCEPT ![t] = TxnMemberResult(@, r)]
    /\ guard' = LockRelease(guard)
    /\ UNCHANGED <<workerVars, pushVars, holderVars, rqVars>>

\* conn->RollbackTransaction() returns; return false
TxnRollbackReturn(t) ==
    /\ ex[t].pc = "rollback"
    /\ ex' = [ex EXCEPT ![t] = Finish(@, FALSE)]
    /\ guard' = LockRelease(guard)
    /\ UNCHANGED <<workerVars, pushVars, holderVars, rqVars>>

\* return conn->CommitTransaction()
TxnCommitReturn(t) ==
    /\ ex[t].pc = "commit"
    /\ \E r \in BOOLEAN :
         ex' = [ex EXCEPT ![t] = Finish([@ EXCEPT !.log = Append(@, <<"committed", r>>)], r)]
    /\ guard' = LockRelease(guard)
    /\ UNCHANGED <<workerVars, pushVars, holderVars, rqVars>>

\* what Execute's log keeps of a step of a query or of a batch on slot i
Step(what, i, r) == [what |-> what, i |-> i, r |-> r]

\* e after the steps were made; they are kept for the operations whose
\* result queue is followed
Log(e, steps) == IF e.op.followed THEN [e EXCEPT !.log = @ \o steps] ELSE e

\* mutant: LOCK_DB_CONN comes before the test of m_callback and m_queue
QueryEarlyReturn_Locked(e) == Finish(Log(e, <<Step("lock", 0, NoResult)>>), FALSE)

\* if (!m_callback || !m_queue) return false
QueryEarlyReturn(e) == Finish(e, FALSE)

\* SqlQuery::Execute: without callback or queue return false; otherwise
\* LOCK_DB_CONN and conn->Query(m_sql). Whether m_callback and m_queue are
\* present was fixed at construction and is first read here.
QueryStart(t) ==
    /\ ex[t].pc = "start"
    /\ ex[t].op.kind = "query"
    /\ \E present \in BOOLEAN :
         IF ~present
         THEN /\ ex' = [ex EXCEPT ![t] = QueryEarlyReturn(@)]
              /\ UNCHANGED guard
         ELSE /\ CanLock(t)
              /\ guard' = LockAcquire(guard, t)
              /\ ex' = [ex EXCEPT ![t] =
                          Log([@ EXCEPT !.pc = "query"],
                              <<Step("lock", 0, NoResult), Step("query", 0, NoResult)>>)]
    /\ UNCHANGED <<workerVars, pushVars, holderVars, rqVars>>

\* mutant: the callback is queued without the result of the query
Answer_NoSetResult(id, r) == [id |-> id, result |-> NoResult]

\* m_callback->SetResult(std::move(result)): the callback as it is queued
Answer(id, r) == [id |-> id, result |-> r]

\* the query returns its result: m_callback->SetResult, m_queue->add(m_callback)
QueryReturn(t) ==
    /\ ex[t].pc = "query"
    /\ \E r \in Results :
         /\ IF ex[t].op.followed
            THEN /\ inbound' = QueueAdd(inbound, Answer(nextCb, r))
                 /\ answered' = Append(answered, r)
                 /\ nextCb' = nextCb + 1
            ELSE UNCHANGED pushVars
         /\ ex' = [ex EXCEPT ![t] =
                     Finish(Log(@, <<Step("SetResult", 0, r), Step("push", 0, NoResult)>>),
                            TRUE)]
    /\ guard' = LockRelease(guard)
    /\ UNCHANGED <<workerVars, holderVars, rqVars>>

\* SqlQueryHolder::SetResult (index counted from 0)
SetResultAt(q, index, result) ==
    IF index < Len(q) THEN [q EXCEPT ![index + 1].second = result] ELSE q

\* SqlQueryHolderEx::Execute: without holder, callback or queue return false;
\* otherwise LOCK_DB_CONN once for the batch
HolderStart(t) ==
    /\ ex[t].pc = "start"
    /\ ex[t].op.kind = "holder"
    /\ \E present \in BOOLEAN :
         IF ~present
         THEN /\ ex' = [ex EXCEPT ![t] = Finish(@, FALSE)]
              /\ UNCHANGED guard
         ELSE /\ CanLock(t)
              /\ guard' = LockAcquire(guard, t)
              /\ ex' = [ex EXCEPT ![t].pc = "hloop", ![t].i = 0]
    /\ UNCHANGED <<workerVars, pushVars, holderVars, rqVars>>

\* the loop over queries[i]: a slot with text is queried, one without is
\* skipped; after the loop m_queue->add(m_callback) and return true
HolderLoop(t) ==
    /\ ex[t].pc = "hloop"
    /\ IF ex[t].i < Len(m_queries)
       THEN /\ ex' = [ex EXCEPT ![t] =
                        IF m_queries[ex[t].i + 1].first # NoText
                        THEN Log([@ EXCEPT !.pc = "hquery"],
                                 <<Step("query", ex[t].i, NoResult)>>)
                        ELSE Log([@ EXCEPT !.i = @ + 1],
                                 <<Step("skip", ex[t].i, NoResult)>>)]
            /\ UNCHANGED <<guard, pushVars>>
       ELSE /\ IF ex[t].op.followed
               THEN /\ inbound' = QueueAdd(inbound, [id |-> nextCb, result |-> NoResult])
                    /\ answered' = Append(answered, Batch)
                    /\ nextCb' = nextCb + 1
               ELSE UNCHANGED pushVars
            /\ ex' = [ex EXCEPT ![t] =
                        Finish(Log(@, <<Step("push", ex[t].i, NoResult)>>), TRUE)]
            /\ guard' = LockRelease(guard)
    /\ UNCHANGED <<workerVars, holderVars, rqVars>>

\* mutant: a query that fails ends the loop
HolderNext_Abort(e, r) ==
    Log([e EXCEPT !.pc = "hloop", !.i = IF r = NoResult THEN Len(m_queries) ELSE @ + 1],
        <<Step("result", e.i, r)>>)

\* the loop goes on to the next slot whatever the query returned
HolderNext(e, r) ==
    Log([e EXCEPT !.pc = "hloop", !.i = @ + 1], <<Step("result", e.i, r)>>)

\* conn->Query(sql) returns: m_holder->SetResult(i, result)
HolderQueryReturn(t) ==
    /\ ex[t].pc = "hquery"
    /\ \E r \in Results :
         /\ m_queries' = IF ex[t].op.followed THEN SetResultAt(m_queries, ex[t].i, r)
                         ELSE m_queries
         /\ ex' = [ex EXCEPT ![t] = HolderNext(@, r)]
    /\ UNCHANGED <<workerVars, guard, pushVars, rqVars, hcall, totalSets,
                   setsSinceTake, released>>

\* one step of the Execute a thread is in
Execute(t) ==
    \/ StmtLock(t)
    \/ StmtReturn(t)
    \/ TxnStart(t)
    \/ TxnBeginReturn(t)
    \/ TxnMember(t)
    \/ TxnMemberReturn(t)
    \/ TxnRollbackReturn(t)
    \/ TxnCommitReturn(t)
    \/ QueryStart(t)
    \/ QueryReturn(t)
    \/ HolderStart(t)
    \/ HolderLoop(t)
    \/ HolderQueryReturn(t)

\* a thread other than the Worker executes an Operation on the same connection
DirectBegin ==
    /\ ex["direct"].pc = "idle"
    /\ \E k \in Kinds :
         ex' = [ex EXCEPT !["direct"] =
                   Begin([id |-> 0, kind |-> k, serial |-> FALSE, followed |-> FALSE])]
    /\ UNCHANGED <<workerVars, guard, pushVars, holderVars, rqVars>>

DirectEnd ==
    /\ ex["direct"].pc = "done"
    /\ ex' = [ex EXCEPT !["direct"] = Idle]
    /\ UNCHANGED <<workerVars, guard, pushVars, holderVars, rqVars>>

\* ----------------------------------------------------------- QueryHolder
\* a query text of n characters
Chars(n) == [i \in 1..n |-> 1 + (i % 2)]

\* the texts callers pass to SetQuery: the empty string, which is a text
Texts == {Text(Chars(0))}

\* what a format and its arguments render to; nullptr is no format
Formats == {NoText, Text(Chars(MAX_QUERY_LEN - 1)), Text(Chars(MAX_QUERY_LEN))}

EmptyPair == [first |-> NoText, second |-> NoResult]

\* the slot an index is counted for, when it has one
Counted(f, index) == IF index \in DOMAIN f THEN [f EXCEPT ![index] = @ + 1] ELSE f

\* what is kept of a call on the holder that has returned: its name, index and
\* return value, the slot the index named as it was before the call (when the
\* index was in range), and whether the call left m_queries as it was
Called(name, index, ret, after) ==
    [name |-> name, index |-> index, ret |-> ret,
     inRange |-> index < Len(m_queries),
     old |-> IF index < Len(m_queries) THEN m_queries[index + 1] ELSE EmptyPair,
     same |-> after = m_queries]

\* mutant: the slot is assigned although a query is stored in it
SetQueryOn_Overwrite(q, index, sql) ==
    IF Len(q) <= index
    THEN [ret |-> FALSE, queries |-> q]
    ELSE [ret |-> TRUE, queries |-> [q EXCEPT ![index + 1] = [first |-> sql, second |-> NoResult]]]

\* SqlQueryHolder::SetQuery: the value returned and m_queries afterwards
SetQueryOn(q, index, sql) ==
    IF Len(q) <= index
    THEN [ret |-> FALSE, queries |-> q]
    ELSE IF q[index + 1].first # NoText
         THEN [ret |-> FALSE, queries |-> q]
         ELSE [ret |-> TRUE,
               queries |-> [q EXCEPT ![index + 1] = [first |-> sql, second |-> NoResult]]]

\* the holder has not been destroyed
Alive == hcall.name # "~SqlQueryHolder"

\* a successful SetQuery stores a fresh copy (mangos_strdup) in the slot
Stored(f, index, ret) == IF ret THEN [f EXCEPT ![index] = 0] ELSE f

RECURSIVE SumTo(_, _)
SumTo(f, n) == IF n < 0 THEN 0 ELSE f[n] + SumTo(f, n - 1)

\* SetQuery/SetPQuery calls are followed until MaxSets of them have succeeded
CanSet == SumTo(totalSets, MaxSize - 1) < MaxSets

SetQuery ==
    \E index \in 0..MaxSize, sql \in Texts :
        /\ CanSet
        /\ Alive
        /\ LET r == SetQueryOn(m_queries, index, sql) IN
             /\ m_queries' = r.queries
             /\ hcall' = Called("SetQuery", index, r.ret, r.queries)
             /\ totalSets' = IF r.ret THEN Counted(totalSets, index) ELSE totalSets
             /\ setsSinceTake' = IF r.ret THEN Counted(setsSinceTake, index)
                                  ELSE setsSinceTake
             /\ released' = Stored(released, index, r.ret)
        /\ UNCHANGED <<workerVars, connVars, pushVars, rqVars>>

\* vsnprintf(szQuery, MAX_QUERY_LEN, format, ap): the values it may return for
\* a rendering of len characters. C99 returns len, also when the buffer is too
\* small; the _vsnprintf of older Microsoft runtimes returns -1 then; both
\* return a negative value on an encoding error.
VsnprintfResults(len) == {len, -1}

\* szQuery after vsnprintf: at most MAX_QUERY_LEN - 1 characters
Buffer(text) ==
    IF Len(text.chars) < MAX_QUERY_LEN THEN text
    ELSE Text(SubSeq(text.chars, 1, MAX_QUERY_LEN - 1))

\* SqlQueryHolder::SetPQuery
SetPQuery ==
    \E index \in 0..MaxSize, format \in Formats :
        /\ CanSet
        /\ Alive
        /\ \E res \in (IF format = NoText THEN {0} ELSE VsnprintfResults(Len(format.chars))) :
             LET r == IF format = NoText \/ res = -1
                      THEN [ret |-> FALSE, queries |-> m_queries]
                      ELSE SetQueryOn(m_queries, index, Buffer(format))
             IN  /\ m_queries' = r.queries
                 /\ hcall' = Called("SetPQuery", index, r.ret, r.queries)
                               @@ [format |-> format]
                 /\ totalSets' = IF r.ret THEN Counted(totalSets, index) ELSE totalSets
                 /\ setsSinceTake' = IF r.ret THEN Counted(setsSinceTake, index)
                                      ELSE setsSinceTake
                 /\ released' = Stored(released, index, r.ret)
        /\ UNCHANGED <<workerVars, connVars, pushVars, rqVars>>

\* mutant: the text is freed but the slot keeps pointing at it
TakeResultOn_KeepText(q, index) ==
    IF index < Len(q)
    THEN [ret |-> q[index + 1].second,
          queries |-> [q EXCEPT ![index + 1].second = NoResult],
          freed |-> q[index + 1].first # NoText]
    ELSE [ret |-> NoResult, queries |-> q, freed |-> FALSE]

\* SqlQueryHolder::TakeResult: the value returned, m_queries afterwards and
\* whether the text of the slot was delete[]d. The text is freed and the
\* pointer cleared; the result is moved out, which leaves nullptr behind.
TakeResultOn(q, index) ==
    IF index < Len(q)
    THEN [ret |-> q[index + 1].second,
          queries |-> [q EXCEPT ![index + 1] = EmptyPair],
          freed |-> q[index + 1].first # NoText]
    ELSE [ret |-> NoResult, queries |-> q, freed |-> FALSE]

TakeResult ==
    \E index \in 0..MaxSize :
        /\ Alive
        /\ LET r == TakeResultOn(m_queries, index) IN
             /\ m_queries' = r.queries
             /\ hcall' = Called("TakeResult", index, r.ret, r.queries)
             /\ released' = IF r.freed THEN Counted(released, index) ELSE released
        /\ setsSinceTake' = IF index < Len(m_queries)
                            THEN [setsSinceTake EXCEPT ![index] = 0] ELSE setsSinceTake
        /\ UNCHANGED <<workerVars, connVars, pushVars, rqVars, totalSets>>

\* SqlQueryHolder::SetResult
SetResult ==
    \E index \in 0..MaxSize, result \in Results :
        /\ Alive
        /\ m_queries' = SetResultAt(m_queries, index, result)
        /\ hcall' = Called("SetResult", index, NoResult, m_queries')
        /\ UNCHANGED <<workerVars, connVars, pushVars, rqVars, totalSets, setsSinceTake,
                       released>>

\* SqlQueryHolder::DeleteAllResults
DeleteAllResults ==
    /\ Alive
    /\ m_queries' = [i \in 1..Len(m_queries) |-> [m_queries[i] EXCEPT !.second = NoResult]]
    /\ hcall' = Called("DeleteAllResults", MaxSize, NoResult, m_queries')
    /\ UNCHANGED <<workerVars, connVars, pushVars, rqVars, totalSets, setsSinceTake,
                   released>>

\* SqlQueryHolder::SetSize: m_queries.resize(size); the slots cut off are
\* destroyed as pairs, and slots added later are new ones
SetSize ==
    \E size \in 0..MaxSize :
        /\ Alive
        /\ m_queries' = [i \in 1..size |-> IF i <= Len(m_queries) THEN m_queries[i]
                                            ELSE EmptyPair]
        /\ hcall' = Called("SetSize", MaxSize, NoResult, m_queries')
        /\ totalSets' = [i \in 0..(MaxSize - 1) |-> 0]
        /\ setsSinceTake' = [i \in 0..(MaxSize - 1) |-> 0]
        /\ released' = [i \in 0..(MaxSize - 1) |-> IF i < size THEN released[i] ELSE 0]
        /\ UNCHANGED <<workerVars, connVars, pushVars, rqVars>>

\* SqlQueryHolder::~SqlQueryHolder: every text still pointed at is delete[]d
SqlQueryHolderDtor ==
    /\ Alive
    /\ released' = [i \in 0..(MaxSize - 1) |->
                       IF i < Len(m_queries) /\ m_queries[i + 1].first # NoText
                       THEN released[i] + 1 ELSE released[i]]
    /\ hcall' = Called("~SqlQueryHolder", MaxSize, NoResult, m_queries)
    /\ UNCHANGED <<workerVars, connVars, pushVars, rqVars, m_queries, totalSets,
                   setsSinceTake>>

\* ---------------------------------------------------------- Result Queue

\* IQueryCallback::Execute on thread `by`, as the delivery record keeps it
Delivered(cb, by) == [id |-> cb.id, result |-> cb.result, by |-> by]

\* a Worker's Execute ends with m_queue->add(m_callback)
WorkerPush ==
    /\ nextCb <= MaxCallbacks
    /\ \E r \in Results :
         /\ inbound' = QueueAdd(inbound, Answer(nextCb, r))
         /\ answered' = Append(answered, r)
    /\ nextCb' = nextCb + 1
    /\ rqcall' = NoCall
    /\ UNCHANGED <<workerVars, connVars, holderVars, threadUnsafeWaitingQueries,
                   numUnsafeQueries, m_callbackThreads, upc, timeout, elapsed, drained,
                   delivery, leftOver, begun, classified>>

\* SqlResultQueue::Update(timeout): begin = getMSTime()
UpdateBegin ==
    /\ upc = "idle"
    /\ \E t \in 0..MaxTimeout : timeout' = t
    /\ elapsed' = 0
    /\ drained' = 0
    /\ upc' = "classify"
    /\ rqcall' = NoCall
    /\ begun' = nextCb - 1
    /\ UNCHANGED <<workerVars, connVars, pushVars, holderVars, threadUnsafeWaitingQueries,
                   numUnsafeQueries, m_callbackThreads, delivery, leftOver, classified>>

\* Update: while (next(callback)): a thread-unsafe callback goes to the unsafe
\* queue and is counted, a thread-safe one becomes a task of the pool; after
\* the loop, processWorkload() starts the pool. IsThreadSafe() is a property
\* of the callback that nothing reads before this call.
UpdateClassify ==
    /\ upc = "classify"
    /\ \E now \in elapsed..MaxElapsed : elapsed' = now
    /\ IF inbound # <<>>
       THEN /\ inbound' = QueuePop(inbound)
            /\ \E safe \in BOOLEAN :
                 IF ~safe
                 THEN /\ threadUnsafeWaitingQueries' =
                            QueueAdd(threadUnsafeWaitingQueries, QueueFront(inbound))
                      /\ numUnsafeQueries' = numUnsafeQueries + 1
                      /\ classified' = [classified EXCEPT
                                           !.unsafe = @ \cup {QueueFront(inbound).id}]
                      /\ UNCHANGED m_callbackThreads
                 ELSE /\ m_callbackThreads' = m_callbackThreads \cup {QueueFront(inbound)}
                      /\ classified' = [classified EXCEPT
                                           !.safe = @ \cup {QueueFront(inbound).id}]
                      /\ UNCHANGED <<threadUnsafeWaitingQueries, numUnsafeQueries>>
            /\ UNCHANGED upc
       ELSE /\ upc' = "drain"
            /\ UNCHANGED <<inbound, threadUnsafeWaitingQueries, numUnsafeQueries,
                           m_callbackThreads, classified>>
    /\ UNCHANGED <<workerVars, connVars, nextCb, answered, holderVars, timeout, drained,
                   delivery, leftOver, rqcall, begun>>

\* mutant: the loop executes the callback queued last
UpdateDrain_Newest ==
    /\ upc = "drain"
    /\ \E now \in elapsed..MaxElapsed : elapsed' = now
    /\ IF threadUnsafeWaitingQueries # <<>>
       THEN /\ threadUnsafeWaitingQueries' =
                  SubSeq(threadUnsafeWaitingQueries, 1, Len(threadUnsafeWaitingQueries) - 1)
            /\ delivery' = Append(delivery,
                    Delivered(threadUnsafeWaitingQueries[Len(threadUnsafeWaitingQueries)],
                              "caller"))
            /\ numUnsafeQueries' = numUnsafeQueries - 1
            /\ drained' = drained + 1
            /\ upc' = IF timeout # 0 /\ elapsed' > timeout THEN "wait" ELSE "drain"
       ELSE /\ upc' = "wait"
            /\ UNCHANGED <<threadUnsafeWaitingQueries, numUnsafeQueries, delivery, drained>>
    /\ UNCHANGED <<workerVars, connVars, pushVars, holderVars, m_callbackThreads, timeout,
                   leftOver, rqcall, begun, classified>>

\* mutant: --numUnsafeQueries comes after the test of the budget
UpdateDrain_CountLate ==
    /\ upc = "drain"
    /\ \E now \in elapsed..MaxElapsed : elapsed' = now
    /\ IF threadUnsafeWaitingQueries # <<>>
       THEN /\ threadUnsafeWaitingQueries' = QueuePop(threadUnsafeWaitingQueries)
            /\ delivery' = Append(delivery,
                    Delivered(QueueFront(threadUnsafeWaitingQueries), "caller"))
            /\ drained' = drained + 1
            /\ IF timeout # 0 /\ elapsed' > timeout
               THEN upc' = "wait" /\ UNCHANGED numUnsafeQueries
               ELSE upc' = "drain" /\ numUnsafeQueries' = numUnsafeQueries - 1
       ELSE /\ upc' = "wait"
            /\ UNCHANGED <<threadUnsafeWaitingQueries, numUnsafeQueries, delivery, drained>>
    /\ UNCHANGED <<workerVars, connVars, pushVars, holderVars, m_callbackThreads, timeout,
                   leftOver, rqcall, begun, classified>>

\* mutant: the budget is tested after next(s) and before s->Execute()
UpdateDrain_TestFirst ==
    /\ upc = "drain"
    /\ \E now \in elapsed..MaxElapsed : elapsed' = now
    /\ IF threadUnsafeWaitingQueries # <<>>
       THEN /\ threadUnsafeWaitingQueries' = QueuePop(threadUnsafeWaitingQueries)
            /\ numUnsafeQueries' = numUnsafeQueries - 1
            /\ IF timeout # 0 /\ elapsed' > timeout
               THEN /\ upc' = "wait"
                    /\ UNCHANGED <<delivery, drained>>
               ELSE /\ delivery' = Append(delivery,
                            Delivered(QueueFront(threadUnsafeWaitingQueries), "caller"))
                    /\ drained' = drained + 1
                    /\ UNCHANGED upc
       ELSE /\ upc' = "wait"
            /\ UNCHANGED <<threadUnsafeWaitingQueries, numUnsafeQueries, delivery, drained>>
    /\ UNCHANGED <<workerVars, connVars, pushVars, holderVars, m_callbackThreads, timeout,
                   leftOver, rqcall, begun, classified>>

\* Update: while (_threadUnsafeWaitingQueries.next(s)): s->Execute(), delete s,
\* --numUnsafeQueries, and break when timeout && getMSTimeDiffToNow(begin) > timeout
UpdateDrain ==
    /\ upc = "drain"
    /\ \E now \in elapsed..MaxElapsed : elapsed' = now
    /\ IF threadUnsafeWaitingQueries # <<>>
       THEN /\ threadUnsafeWaitingQueries' = QueuePop(threadUnsafeWaitingQueries)
            /\ delivery' = Append(delivery,
                    Delivered(QueueFront(threadUnsafeWaitingQueries), "caller"))
            /\ numUnsafeQueries' = numUnsafeQueries - 1
            /\ drained' = drained + 1
            /\ upc' = IF timeout # 0 /\ elapsed' > timeout THEN "wait" ELSE "drain"
       ELSE /\ upc' = "wait"
            /\ UNCHANGED <<threadUnsafeWaitingQueries, numUnsafeQueries, delivery, drained>>
    /\ UNCHANGED <<workerVars, connVars, pushVars, holderVars, m_callbackThreads, timeout,
                   leftOver, rqcall, begun, classified>>

\* a pool thread runs one task: callback->Execute(); delete callback
PoolRun ==
    /\ upc \in {"drain", "wait"}
    /\ \E cb \in m_callbackThreads :
         /\ delivery' = Append(delivery, Delivered(cb, "pool"))
         /\ m_callbackThreads' = m_callbackThreads \ {cb}
    /\ UNCHANGED <<workerVars, connVars, pushVars, holderVars, threadUnsafeWaitingQueries,
                   numUnsafeQueries, upc, timeout, elapsed, drained, leftOver, rqcall,
                   begun, classified>>

\* mutant: Update returns without job.wait()
UpdateEnd_NoWait ==
    /\ upc = "wait"
    /\ upc' = "idle"
    /\ leftOver' = leftOver \cup {threadUnsafeWaitingQueries[i].id :
                                       i \in 1..Len(threadUnsafeWaitingQueries)}
    /\ rqcall' = [name |-> "Update", begun |-> begun, timeout |-> timeout]
    /\ begun' = 0
    /\ timeout' = 0
    /\ elapsed' = 0
    /\ drained' = 0
    /\ UNCHANGED <<workerVars, connVars, pushVars, holderVars, threadUnsafeWaitingQueries,
                   numUnsafeQueries, m_callbackThreads, delivery, classified>>

\* Update: job.wait() returns when the pool has run the tasks; Update returns
UpdateEnd ==
    /\ upc = "wait"
    /\ m_callbackThreads = {}
    /\ upc' = "idle"
    /\ leftOver' = leftOver \cup {threadUnsafeWaitingQueries[i].id :
                                       i \in 1..Len(threadUnsafeWaitingQueries)}
    /\ rqcall' = [name |-> "Update", begun |-> begun, timeout |-> timeout]
    /\ begun' = 0
    /\ timeout' = 0
    /\ elapsed' = 0
    /\ drained' = 0
    /\ UNCHANGED <<workerVars, connVars, pushVars, holderVars, threadUnsafeWaitingQueries,
                   numUnsafeQueries, m_callbackThreads, delivery, classified>>

\* mutant: the callbacks are executed with the result the query gave them
CancelDeliveries_KeepResult(q) ==
    [i \in 1..Len(q) |-> Delivered(q[i], "caller")]

\* CancelAll's loop body over the callbacks next(cb) yields:
\* cb->SetResult(nullptr); cb->Execute(); delete cb
CancelDeliveries(q) ==
    [i \in 1..Len(q) |-> Delivered([q[i] EXCEPT !.result = NoResult], "caller")]

\* SqlResultQueue::CancelAll
CancelAll ==
    /\ upc = "idle"
    /\ delivery' = delivery \o CancelDeliveries(inbound)
    /\ inbound' = <<>>
    /\ rqcall' = [name |-> "CancelAll", pending |-> inbound, before |-> Len(delivery),
                  fifo |-> threadUnsafeWaitingQueries, counter |-> numUnsafeQueries,
                  tasks |-> m_callbackThreads]
    /\ UNCHANGED <<workerVars, connVars, nextCb, answered, holderVars,
                   threadUnsafeWaitingQueries, numUnsafeQueries, m_callbackThreads, upc,
                   timeout, elapsed, drained, leftOver, begun, classified>>

\* ------------------------------------------------------------- producers
NewOp(k, serial) == [id |-> nextOp, kind |-> k, serial |-> serial, followed |-> TRUE]

\* SqlDelayThread::addSerialOperation
addSerialOperation ==
    /\ wpc # "terminated"
    /\ nextOp <= MaxOps
    /\ \E k \in Kinds : m_serialDelayQueue' = QueueAdd(m_serialDelayQueue, NewOp(k, TRUE))
    /\ nextOp' = nextOp + 1
    /\ UNCHANGED <<m_running, m_delayQueue, wpc, inDtor, loopCounter, executed, deleted,
                   connVars, pushVars, holderVars, rqVars>>

\* a producer adds to the Database's Delayed Queue
AddDelayed ==
    /\ wpc # "terminated"
    /\ nextOp <= MaxOps
    /\ \E k \in Kinds : m_delayQueue' = QueueAdd(m_delayQueue, NewOp(k, FALSE))
    /\ nextOp' = nextOp + 1
    /\ UNCHANGED <<m_running, m_serialDelayQueue, wpc, inDtor, loopCounter, executed,
                   deleted, connVars, pushVars, holderVars, rqVars>>

\* SqlDelayThread::Stop
Stop ==
    /\ wpc # "terminated"
    /\ m_running' = FALSE
    /\ UNCHANGED <<m_delayQueue, m_serialDelayQueue, wpc, inDtor, loopCounter, nextOp,
                   executed, deleted, connVars, pushVars, holderVars, rqVars>>

\* ---------------------------------------------------------------- Worker
\* what the record of executed operations keeps of one
Ran(op) == [id |-> op.id, serial |-> op.serial]

\* mutant: the loop does not test m_running
RunWhile_Forever ==
    /\ wpc = "while"
    /\ wpc' = "sleep"
    /\ UNCHANGED <<m_running, m_delayQueue, m_serialDelayQueue, inDtor, loopCounter,
                   nextOp, executed, deleted, connVars, pushVars, holderVars, rqVars>>

\* run(): while (m_running)
RunWhile ==
    /\ wpc = "while"
    /\ wpc' = IF m_running THEN "sleep" ELSE "exited"
    /\ UNCHANGED <<m_running, m_delayQueue, m_serialDelayQueue, inDtor, loopCounter,
                   nextOp, executed, deleted, connVars, pushVars, holderVars, rqVars>>

\* run(): sleep_for(loopSleepms), then ProcessRequests()
RunSleep ==
    /\ wpc = "sleep"
    /\ wpc' = "delayed"
    /\ UNCHANGED <<m_running, m_delayQueue, m_serialDelayQueue, inDtor, loopCounter,
                   nextOp, executed, deleted, connVars, pushVars, holderVars, rqVars>>

\* ProcessRequests: while (m_dbEngine->NextDelayedOperation(s)) s->Execute(...)
ProcessDelayed ==
    /\ wpc = "delayed"
    /\ IF m_delayQueue # <<>>
       THEN /\ wpc' = "delayed_exec"
            /\ ex' = [ex EXCEPT !["worker"] = Begin(QueueFront(m_delayQueue))]
            /\ m_delayQueue' = QueuePop(m_delayQueue)
            /\ executed' = Append(executed, Ran(QueueFront(m_delayQueue)))
       ELSE /\ wpc' = "serial"
            /\ UNCHANGED <<ex, m_delayQueue, executed>>
    /\ UNCHANGED <<m_running, m_serialDelayQueue, inDtor, loopCounter, nextOp, deleted,
                   guard, pushVars, holderVars, rqVars>>

\* mutant: the loop takes the newest serial operation instead of the oldest
ProcessSerial_Newest ==
    /\ wpc = "serial"
    /\ IF m_serialDelayQueue # <<>>
       THEN /\ wpc' = "serial_exec"
            /\ ex' = [ex EXCEPT !["worker"] = Begin(m_serialDelayQueue[Len(m_serialDelayQueue)])]
            /\ m_serialDelayQueue' = SubSeq(m_serialDelayQueue, 1, Len(m_serialDelayQueue) - 1)
            /\ executed' = Append(executed, Ran(m_serialDelayQueue[Len(m_serialDelayQueue)]))
       ELSE /\ wpc' = IF inDtor THEN "terminated" ELSE "tick"
            /\ UNCHANGED <<ex, m_serialDelayQueue, executed>>
    /\ UNCHANGED <<m_running, m_delayQueue, inDtor, loopCounter, nextOp, deleted,
                   guard, pushVars, holderVars, rqVars>>

\* ProcessRequests: while (m_serialDelayQueue.next(s)) s->Execute(...); at the
\* end of the loop the function returns to run() or to the destructor, which
\* then deletes the connection
ProcessSerial ==
    /\ wpc = "serial"
    /\ IF m_serialDelayQueue # <<>>
       THEN /\ wpc' = "serial_exec"
            /\ ex' = [ex EXCEPT !["worker"] = Begin(QueueFront(m_serialDelayQueue))]
            /\ m_serialDelayQueue' = QueuePop(m_serialDelayQueue)
            /\ executed' = Append(executed, Ran(QueueFront(m_serialDelayQueue)))
       ELSE /\ wpc' = IF inDtor THEN "terminated" ELSE "tick"
            /\ UNCHANGED <<ex, m_serialDelayQueue, executed>>
    /\ UNCHANGED <<m_running, m_delayQueue, inDtor, loopCounter, nextOp, deleted,
                   guard, pushVars, holderVars, rqVars>>

\* ProcessRequests: Execute has returned; delete s
DeleteOp ==
    /\ wpc \in {"delayed_exec", "serial_exec"}
    /\ ex["worker"].pc = "done"
    /\ deleted' = [deleted EXCEPT ![ex["worker"].op.id] = @ + 1]
    /\ ex' = [ex EXCEPT !["worker"] = Idle]
    /\ wpc' = IF wpc = "delayed_exec" THEN "delayed" ELSE "serial"
    /\ UNCHANGED <<m_running, m_delayQueue, m_serialDelayQueue, inDtor, loopCounter,
                   nextOp, executed, guard, pushVars, holderVars, rqVars>>

\* run(): if ((loopCounter++) >= pingEveryLoop)
RunTick ==
    /\ wpc = "tick"
    /\ loopCounter' = loopCounter + 1
    /\ wpc' = IF loopCounter >= pingEveryLoop THEN "reset" ELSE "while"
    /\ UNCHANGED <<m_running, m_delayQueue, m_serialDelayQueue, inDtor, nextOp,
                   executed, deleted, connVars, pushVars, holderVars, rqVars>>

\* run(): loopCounter = 0; m_dbEngine->Ping() takes the guard of the connection
RunPing ==
    /\ wpc = "reset"
    /\ CanLock("worker")
    /\ guard' = LockAcquire(guard, "worker")
    /\ loopCounter' = 0
    /\ wpc' = "ping"
    /\ UNCHANGED <<m_running, m_delayQueue, m_serialDelayQueue, inDtor, nextOp,
                   executed, deleted, ex, pushVars, holderVars, rqVars>>

\* Ping() returns, its guard released; run() calls m_dbConnection->Query("SELECT 1")
RunProbe ==
    /\ wpc = "ping"
    /\ guard' = LockRelease(guard)
    /\ wpc' = "probe"
    /\ UNCHANGED <<m_running, m_delayQueue, m_serialDelayQueue, inDtor, loopCounter,
                   nextOp, executed, deleted, ex, pushVars, holderVars, rqVars>>

\* the "SELECT 1" query returns; its result is ignored
RunProbeReturn ==
    /\ wpc = "probe"
    /\ wpc' = "while"
    /\ UNCHANGED <<m_running, m_delayQueue, m_serialDelayQueue, inDtor, loopCounter,
                   nextOp, executed, deleted, connVars, pushVars, holderVars, rqVars>>

\* ~SqlDelayThread: ProcessRequests(), then delete m_dbConnection
Destructor ==
    /\ wpc = "exited"
    /\ inDtor' = TRUE
    /\ wpc' = "delayed"
    /\ UNCHANGED <<m_running, m_delayQueue, m_serialDelayQueue, loopCounter, nextOp,
                   executed, deleted, connVars, pushVars, holderVars, rqVars>>

\* ------------------------------------------------------------------ Spec
InitBase ==
    /\ m_running = TRUE
    /\ m_delayQueue = <<>>
    /\ m_serialDelayQueue = <<>>
    /\ wpc = "while"
    /\ inDtor = FALSE
    /\ loopCounter = 0
    /\ ex = [t \in Threads |-> Idle]
    /\ guard = FreeGuard
    /\ nextOp = 1
    /\ executed = <<>>
    /\ deleted = [i \in 1..MaxOps |-> 0]
    /\ inbound = <<>>
    /\ nextCb = 1
    /\ answered = <<>>
    /\ begun = 0
    /\ classified = [safe |-> {}, unsafe |-> {}]
    /\ hcall = [name |-> "none", index |-> 0, ret |-> FALSE, inRange |-> FALSE,
                old |-> EmptyPair, same |-> TRUE]
    /\ totalSets = [i \in 0..(MaxSize - 1) |-> 0]
    /\ setsSinceTake = [i \in 0..(MaxSize - 1) |-> 0]
    /\ released = [i \in 0..(MaxSize - 1) |-> 0]
    /\ threadUnsafeWaitingQueries = <<>>
    /\ numUnsafeQueries = 0
    /\ m_callbackThreads = {}
    /\ upc = "idle"
    /\ timeout = 0
    /\ elapsed = 0
    /\ drained = 0
    /\ delivery = <<>>
    /\ leftOver = {}
    /\ rqcall = NoCall

\* the holder of the batches the Worker runs: SetSize(2), SetQuery(0, sql)
PreparedHolder == <<[first |-> Text(Chars(1)), second |-> NoResult],
                    [first |-> NoText, second |-> NoResult]>>

Init == InitBase /\ m_queries = PreparedHolder

\* the Worker with its producers
Next ==
    \/ addSerialOperation
    \/ AddDelayed
    \/ Stop
    \/ RunWhile
    \/ RunSleep
    \/ ProcessDelayed
    \/ ProcessSerial
    \/ DeleteOp
    \/ RunTick
    \/ RunPing
    \/ RunProbe
    \/ RunProbeReturn
    \/ Destructor
    \/ Execute("worker")

Spec == Init /\ [][Next]_vars

\* the Worker, and a second thread executing Operations on its connection
NextShared ==
    \/ (nextOp <= MaxShared /\ addSerialOperation)
    \/ (nextOp <= MaxShared /\ AddDelayed)
    \/ Stop
    \/ RunWhile
    \/ RunSleep
    \/ ProcessDelayed
    \/ ProcessSerial
    \/ DeleteOp
    \/ RunTick
    \/ RunPing
    \/ RunProbe
    \/ RunProbeReturn
    \/ Destructor
    \/ DirectBegin
    \/ DirectEnd
    \/ \E t \in Threads : Execute(t)

SpecShared == Init /\ [][NextShared]_vars

\* the result queue, its owning thread and the Workers that feed it
NextRQ ==
    \/ WorkerPush
    \/ UpdateBegin
    \/ UpdateClassify
    \/ UpdateDrain
    \/ PoolRun
    \/ UpdateEnd
    \/ CancelAll

SpecRQ == Init /\ [][NextRQ]_vars

\* a Worker, the producers of its queues, and the thread that owns the result
\* queue the Worker's queries are bound to
NextAsync ==
    \/ (nextOp <= MaxAsync /\ addSerialOperation)
    \/ (nextOp <= MaxAsync /\ AddDelayed)
    \/ RunWhile
    \/ RunSleep
    \/ ProcessDelayed
    \/ ProcessSerial
    \/ DeleteOp
    \/ RunTick
    \/ RunPing
    \/ RunProbe
    \/ RunProbeReturn
    \/ Execute("worker")
    \/ UpdateBegin
    \/ UpdateClassify
    \/ UpdateDrain
    \/ PoolRun
    \/ UpdateEnd

SpecAsync == Init /\ [][NextAsync]_vars

\* a step of the thread that runs run(), and of the one that runs the
\* destructor's ProcessRequests
WorkerStep ==
    \/ RunWhile
    \/ RunSleep
    \/ ProcessDelayed
    \/ ProcessSerial
    \/ DeleteOp
    \/ RunTick
    \/ RunPing
    \/ RunProbe
    \/ RunProbeReturn
    \/ Execute("worker")

\* the Worker, its producers and the owner that stops and destroys it
NextStop ==
    \/ (nextOp <= MaxStop /\ addSerialOperation)
    \/ (nextOp <= MaxStop /\ AddDelayed)
    \/ Stop
    \/ Destructor
    \/ WorkerStep

\* the Worker's thread is scheduled, and the calls on the connection return
SpecStop == Init /\ [][NextStop]_vars /\ WF_vars(WorkerStep)

\* a slot as SetQuery leaves it
QueryPair == [first |-> Text(Chars(1)), second |-> NoResult]

RECURSIVE Holders(_)
\* the holders of n slots, each slot with a query or without
Holders(n) ==
    IF n = 0 THEN {<<>>}
    ELSE {Append(q, p) : q \in Holders(n - 1), p \in {EmptyPair, QueryPair}}

\* the holders an owner hands to SqlQueryHolder::Execute: SetSize, then
\* SetQuery on some of the slots
PreparedHolders == UNION {Holders(n) : n \in 0..MaxSize}

InitBatch == InitBase /\ m_queries \in PreparedHolders

\* a Worker executing the operations of its queues on a holder of any shape
NextBatch ==
    \/ (nextOp <= MaxBatch /\ addSerialOperation)
    \/ (nextOp <= MaxBatch /\ AddDelayed)
    \/ RunWhile
    \/ RunSleep
    \/ ProcessDelayed
    \/ ProcessSerial
    \/ DeleteOp
    \/ RunTick
    \/ RunPing
    \/ RunProbe
    \/ RunProbeReturn
    \/ Execute("worker")

SpecBatch == InitBatch /\ [][NextBatch]_vars

\* one holder and the calls its owner makes on it
NextHolder ==
    \/ SetSize
    \/ SetQuery
    \/ SetPQuery
    \/ TakeResult
    \/ SetResult
    \/ DeleteAllResults
    \/ SqlQueryHolderDtor

InitHolder == InitBase /\ m_queries = <<>>

SpecHolder == InitHolder /\ [][NextHolder]_vars

\* ------------------------------------------------------------ properties
SerialExecuted == SelectSeq(executed, LAMBDA o : o.serial)

\* C1: the Worker executes the operations of its Serial Queue in the order
\* they were submitted (ids grow with submission), over every loop iteration
\* and the teardown drain: the executed serial operations are in submission
\* order, and none still queued was submitted before an executed one.
C1_SerialFifo ==
    /\ \A i, j \in 1..Len(SerialExecuted) :
         i < j => SerialExecuted[i].id < SerialExecuted[j].id
    /\ \A i \in 1..Len(SerialExecuted), j \in 1..Len(m_serialDelayQueue) :
         SerialExecuted[i].id < m_serialDelayQueue[j].id

\* two serial operations were executed, the second by the teardown drain
C1_Witness ==
    /\ Len(SerialExecuted) = 2
    /\ wpc = "serial_exec"
    /\ inDtor
    /\ Len(executed) = 2

TimesExecuted(id) == Cardinality({i \in 1..Len(executed) : executed[i].id = id})

\* C2: every operation enqueued into the Delayed Queue or the Serial Queue
\* before the teardown drain completes is executed exactly once and destroyed
\* exactly once: when the destructor's ProcessRequests has returned, each
\* operation ever enqueued has one Execute and one delete.
C2_AllExecutedOnce ==
    wpc = "terminated" =>
        \A id \in 1..(nextOp - 1) : TimesExecuted(id) = 1 /\ deleted[id] = 1

\* C3: at most one Operation Execute is inside a connection call at any
\* instant, and a thread inside one holds the Connection Guard.
C3_OneInFlight ==
    /\ Cardinality({t \in Threads : InOpCall(t)}) <= 1
    /\ \A t \in Threads : InOpCall(t) => guard.owner = t

\* the Worker is about to execute a statement while another thread is inside
\* a connection call of its own transaction member
C3_Witness ==
    /\ ex["direct"].pc = "mcall"
    /\ ex["worker"].pc = "start"
    /\ ex["worker"].op.kind \in {"plain", "query", "holder"}

RECURSIVE MemberLog(_, _)
\* the log of members 0 .. k-1 all succeeding
MemberLog(k, acc) ==
    IF k = 0 THEN acc ELSE MemberLog(k - 1, <<<<"exec", k - 1>>, "ok">> \o acc)

\* what the connection sees of a transaction of n members whose first failing
\* member is the k-th (k = 0: none fails, and commit returns r)
ExpectedTxnLog(n, k, r) ==
    IF k = 0
    THEN <<"begin">> \o MemberLog(n, <<>>) \o <<"commit", <<"committed", r>>>>
    ELSE <<"begin">> \o MemberLog(k - 1, <<>>) \o <<<<"exec", k - 1>>, "fail", "rollback">>

\* C4: a transaction of n >= 1 members whose first failing member is the k-th
\* executes members 1..k in order and no later one, rolls back once, does not
\* commit and returns failure; with no failing member it executes each member
\* once in order, commits once, never rolls back and returns commit's result.
C4_AllOrNothing ==
    \A t \in Threads :
        (ex[t].pc = "done" /\ ex[t].op.kind = "txn" /\ ex[t].n >= 1) =>
            \E k \in 0..ex[t].n, r \in BOOLEAN :
                /\ ex[t].log = ExpectedTxnLog(ex[t].n, k, r)
                /\ ex[t].ret = IF k = 0 THEN r ELSE FALSE

\* a transaction of two members whose first member failed has returned
C4_Witness ==
    /\ ex["worker"].pc = "done"
    /\ ex["worker"].op.kind = "txn"
    /\ ex["worker"].n = 2
    /\ ex["worker"].log = <<"begin", <<"exec", 0>>, "fail", "rollback">>
    /\ ex["worker"].ret = FALSE

\* the Worker is inside a call on its connection
WorkerInCall == InOpCall("worker") \/ wpc \in {"ping", "probe"}

\* C8: every connection call of the Worker's loop, the liveness probe
\* included, is made holding the Connection Guard, so that a probe never
\* overlaps a statement another thread has in progress on the connection.
C8_ProbeGuarded ==
    /\ WorkerInCall => guard.owner = "worker"
    /\ ~(wpc \in {"ping", "probe"} /\ InOpCall("direct"))

TimesDelivered(id) == Cardinality({i \in 1..Len(delivery) : delivery[i].id = id})

TimesIn(q, id) == Cardinality({i \in 1..Len(q) : q[i].id = id})

\* C5: after Worker pushes and Update calls followed by CancelAll, every
\* callback ever pushed onto the result queue has been delivered exactly once,
\* those an earlier time-boxed Update left in the unsafe queue included.
C5_NoneUndelivered ==
    rqcall.name = "CancelAll" =>
        \A id \in 1..(nextCb - 1) : TimesDelivered(id) = 1

\* C6: CancelAll called with N callbacks pending in the inbound channel makes
\* exactly N deliveries, one per pending callback, on the calling thread and
\* with the empty result whatever the query produced; afterwards the inbound
\* channel is empty and the unsafe queue, its counter and the pool are as before.
C6_CancelAll ==
    rqcall.name = "CancelAll" =>
        /\ Len(delivery) = rqcall.before + Len(rqcall.pending)
        /\ \A i \in 1..Len(rqcall.pending) :
             delivery[rqcall.before + i] =
                 [id |-> rqcall.pending[i].id, result |-> NoResult, by |-> "caller"]
        /\ inbound = <<>>
        /\ threadUnsafeWaitingQueries = rqcall.fifo
        /\ numUnsafeQueries = rqcall.counter
        /\ m_callbackThreads = rqcall.tasks

\* CancelAll has returned from two pending callbacks, one of which carried
\* rows, after an Update had delivered an earlier callback
C6_Witness ==
    /\ rqcall.name = "CancelAll"
    /\ Len(rqcall.pending) = 2
    /\ \E i \in 1..2 : rqcall.pending[i].result = "rows"
    /\ rqcall.before = 1

\* C7: Update with budget 0 executes the whole unsafe backlog in the call; with
\* a budget it stops once the elapsed time exceeds the budget and not before,
\* leaving the rest queued for later calls; no callback is delivered twice and
\* none is lost: each is in the inbound channel, the unsafe queue or the pool,
\* or has been delivered, exactly once in all.
C7_TimeBoxedDrain ==
    /\ (upc = "wait" /\ timeout = 0) => threadUnsafeWaitingQueries = <<>>
    /\ (upc = "wait" /\ threadUnsafeWaitingQueries # <<>>) =>
           (timeout # 0 /\ elapsed > timeout /\ drained >= 1)
    /\ (upc = "drain" /\ timeout # 0 /\ drained >= 1) => elapsed <= timeout
    /\ \A id \in 1..(nextCb - 1) :
           TimesIn(inbound, id) + TimesIn(threadUnsafeWaitingQueries, id)
             + Cardinality({cb \in m_callbackThreads : cb.id = id})
             + TimesDelivered(id) = 1
    /\ \A id \in leftOver :
           TimesIn(threadUnsafeWaitingQueries, id) = 1
               \/ \E i \in 1..Len(delivery) :
                      delivery[i].id = id /\ delivery[i].by = "caller"

\* a callback that a time-boxed Update left queued was delivered by a later
\* Update, which has returned with the unsafe queue empty
C7_Witness ==
    /\ rqcall.name = "Update"
    /\ threadUnsafeWaitingQueries = <<>>
    /\ \E i \in 1..Len(delivery) : delivery[i].id \in leftOver /\ delivery[i].by = "caller"

IsSet(call) == call.name \in {"SetQuery", "SetPQuery"}

\* the slot a call names had a text when the call was made
OnPopulated(call) == call.inRange /\ call.old.first # NoText

\* C9: SetQuery on an index >= the holder's size returns false and changes no
\* slot; SetQuery on a slot that has a text returns false and leaves that
\* slot's text and result, and every other slot, as they were.
C9_SetQueryRejects ==
    (hcall.name = "SetQuery" /\ (~hcall.inRange \/ OnPopulated(hcall))) =>
        /\ hcall.ret = FALSE
        /\ hcall.same
        /\ hcall.inRange => m_queries[hcall.index + 1] = hcall.old

\* SetQuery was refused on a slot holding a text and a result, beside another slot
C9_Witness ==
    /\ hcall.name = "SetQuery"
    /\ OnPopulated(hcall)
    /\ hcall.old.second = "rows"
    /\ hcall.ret = FALSE
    /\ Len(m_queries) = 2

\* C10 as stated: over any calls of SetQuery, SetPQuery, TakeResult, SetResult
\* and DeleteAllResults since the last SetSize, at most one SetQuery/SetPQuery
\* per slot succeeds.
C10_SetAtMostOnce ==
    \A index \in DOMAIN totalSets : totalSets[index] <= 1

\* C10 amended: at most one SetQuery/SetPQuery per slot succeeds between two
\* TakeResult calls on that slot, and any attempt on a slot that holds a text
\* fails without changing the holder.
C10_SetOncePerTake ==
    /\ \A index \in DOMAIN setsSinceTake : setsSinceTake[index] <= 1
    /\ (IsSet(hcall) /\ OnPopulated(hcall)) => (hcall.ret = FALSE /\ hcall.same)

\* a slot that was set and taken has been set again by SetPQuery
C10_Witness ==
    /\ hcall.name = "SetPQuery"
    /\ hcall.ret = TRUE
    /\ totalSets[hcall.index] = 2
    /\ setsSinceTake[hcall.index] = 1

\* C11: TakeResult on a slot in range returns the result the slot held and
\* leaves the slot without result and without text; a slot's result goes from
\* absent to present only by a SetResult on that slot, so without one every
\* later TakeResult returns the empty result; TakeResult on an index out of
\* range returns the empty result and leaves the holder as it was; a text is
\* delete[]d at most once, a text a live holder points at has not been
\* released, and when TakeResult or the destructor has met a text, that text
\* was released exactly once.
C11_TakeResult ==
    /\ [](hcall.name = "TakeResult" =>
             IF hcall.inRange
             THEN /\ hcall.ret = hcall.old.second
                  /\ m_queries[hcall.index + 1] = EmptyPair
                  /\ hcall.old.first # NoText => released[hcall.index] = 1
             ELSE hcall.ret = NoResult /\ hcall.same)
    /\ [](\A index \in 0..(Len(m_queries) - 1) :
             m_queries[index + 1].first # NoText =>
                 released[index] = (IF Alive THEN 0 ELSE 1))
    /\ [](\A index \in DOMAIN released : released[index] <= 1)
    /\ [][\A i \in 1..Len(m_queries) :
             (i <= Len(m_queries') /\ m_queries[i].second = NoResult
                                   /\ m_queries'[i].second # NoResult) =>
                 (hcall'.name = "SetResult" /\ hcall'.index = i - 1)]_vars

\* TakeResult has just returned the empty result for a slot whose text and
\* result an earlier TakeResult released and moved out
C11_Witness ==
    /\ hcall.name = "TakeResult"
    /\ hcall.inRange
    /\ hcall.old = EmptyPair
    /\ released[hcall.index] = 1
    /\ hcall.ret = NoResult

\* C12: SetPQuery never stores a truncated query: when the rendering of the
\* format does not fit in the MAX_QUERY_LEN characters of the buffer (the
\* terminating NUL included) SetPQuery returns false and leaves the holder
\* as it was, and the text a successful SetPQuery stored is the complete
\* rendering.
C12_NoTruncation ==
    (hcall.name = "SetPQuery" /\ hcall.format # NoText) =>
        /\ Len(hcall.format.chars) >= MAX_QUERY_LEN => (~hcall.ret /\ hcall.same)
        /\ hcall.ret => m_queries[hcall.index + 1].first = hcall.format

\* the deliveries of callback id
DeliveriesOf(id) == SelectSeq(delivery, LAMBDA d : d.id = id)

\* C13: an AsyncQuery with a thread-safe callback that the Worker has executed
\* (its callback was pushed) before an Update call began has, once that
\* Update has returned, been delivered exactly once, with the result the
\* connection's Query returned for it, and is in no queue and no pool task.
C13_EndToEnd ==
    rqcall.name = "Update" =>
        \A id \in 1..rqcall.begun :
            (answered[id] \in Results /\ id \in classified.safe) =>
                /\ DeliveriesOf(id) = <<[id |-> id, result |-> answered[id], by |-> "pool"]>>
                /\ TimesIn(inbound, id) = 0
                /\ \A cb \in m_callbackThreads : cb.id # id

\* the query of an AsyncQuery returned rows, an Update that began after the
\* Worker had pushed its callback has returned, and the pool delivered them
C13_Witness ==
    /\ rqcall.name = "Update"
    /\ rqcall.begun = 1
    /\ answered = <<"rows">>
    /\ delivery = <<[id |-> 1, result |-> "rows", by |-> "pool"]>>
    /\ ex["worker"].pc = "idle"

RECURSIVE ExpectedBatchLog(_, _)
\* what a batch over the slots 0 .. n-1 of q does, from the texts of q and the
\* results q holds afterwards
ExpectedBatchLog(q, n) ==
    IF n = 0 THEN <<>>
    ELSE ExpectedBatchLog(q, n - 1) \o
         (IF q[n].first # NoText
          THEN <<Step("query", n - 1, NoResult), Step("result", n - 1, q[n].second)>>
          ELSE <<Step("skip", n - 1, NoResult)>>)

\* C14: SqlQueryHolderEx::Execute with holder, callback and queue present
\* holds the guard from its first step to its return, visits the slots in
\* increasing index order, queries every slot with a text and stores what the
\* query returned (rows, or nothing on failure) in that slot, leaves a slot
\* without text as it was, goes on after a failing slot, pushes the callback
\* once, after the last slot, and returns true; without holder, callback or
\* queue it returns false having queried nothing and pushed nothing.
C14_HolderBatch ==
    /\ nextCb - 1 <= Len(executed)
    /\ ex["worker"].pc \in {"hloop", "hquery"} =>
           (guard.owner = "worker" /\ guard.depth = 1)
    /\ (ex["worker"].pc = "done" /\ ex["worker"].op.kind = "holder") =>
           /\ guard = FreeGuard
           /\ IF ex["worker"].ret
              THEN /\ ex["worker"].log =
                          ExpectedBatchLog(m_queries, Len(m_queries))
                              \o <<Step("push", Len(m_queries), NoResult)>>
                   /\ \A i \in 1..Len(m_queries) :
                          m_queries[i].first = NoText => m_queries[i] = EmptyPair
                   /\ nextCb = ex["worker"].cb + 1
                   /\ inbound # <<>>
                   /\ inbound[Len(inbound)] = [id |-> ex["worker"].cb, result |-> NoResult]
                   /\ answered[ex["worker"].cb] = Batch
              ELSE /\ ex["worker"].log = <<>>
                   /\ nextCb = ex["worker"].cb

\* the batch has returned from a holder of two queries: the first failed, the
\* second returned rows, and the callback was pushed
C14_Witness ==
    /\ ex["worker"].pc = "done"
    /\ ex["worker"].op.kind = "holder"
    /\ ex["worker"].ret
    /\ Len(m_queries) = 2
    /\ m_queries[1] = [first |-> Text(Chars(1)), second |-> NoResult]
    /\ m_queries[2] = [first |-> Text(Chars(1)), second |-> "rows"]
    /\ Len(inbound) = 1

\* C15: SqlQuery::Execute without callback or queue returns false having
\* taken no guard, made no connection call and pushed nothing; with both it
\* holds the guard during the query and returns true whatever the query
\* returned, having set the callback's result to it once and then pushed the
\* callback once onto the queue it was bound to.
C15_QueryValidation ==
    /\ ex["worker"].pc = "query" => guard.owner = "worker"
    /\ (ex["worker"].pc = "done" /\ ex["worker"].op.kind = "query") =>
           /\ guard = FreeGuard
           /\ IF ex["worker"].ret
              THEN /\ nextCb = ex["worker"].cb + 1
                   /\ inbound # <<>>
                   /\ inbound[Len(inbound)].id = ex["worker"].cb
                   /\ answered[ex["worker"].cb] = inbound[Len(inbound)].result
                   /\ TimesIn(inbound, ex["worker"].cb) = 1
                   /\ ex["worker"].log =
                          <<Step("lock", 0, NoResult), Step("query", 0, NoResult),
                            Step("SetResult", 0, answered[ex["worker"].cb]),
                            Step("push", 0, NoResult)>>
              ELSE /\ ex["worker"].log = <<>>
                   /\ nextCb = ex["worker"].cb

\* the Worker has executed a query that failed and one that lacked its
\* callback or queue: the first returned true and pushed the empty result,
\* the second returned false and pushed nothing
C15_Witness ==
    /\ ex["worker"].pc = "done"
    /\ ex["worker"].op.kind = "query"
    /\ ~ex["worker"].ret
    /\ Len(executed) = 2
    /\ inbound = <<[id |-> 1, result |-> NoResult]>>
    /\ answered = <<NoResult>>

\* C16: a callback for which IsThreadSafe() returned true in an Update is
\* executed on the pool and nowhere else, at most once, and when no Update is
\* in progress it has been executed exactly once and its task is gone; a
\* callback for which it returned false is never a task of the pool and is
\* executed, at most once, by the thread calling Update only.
C16_BarrierAndClasses ==
    /\ \A id \in classified.safe :
           /\ \A i \in 1..Len(DeliveriesOf(id)) : DeliveriesOf(id)[i].by = "pool"
           /\ TimesDelivered(id) <= 1
           /\ TimesIn(threadUnsafeWaitingQueries, id) = 0
           /\ upc = "idle" =>
                  /\ TimesDelivered(id) = 1
                  /\ \A cb \in m_callbackThreads : cb.id # id
    /\ \A id \in classified.unsafe :
           /\ \A i \in 1..Len(DeliveriesOf(id)) : DeliveriesOf(id)[i].by = "caller"
           /\ TimesDelivered(id) <= 1
           /\ \A cb \in m_callbackThreads : cb.id # id
    /\ classified.safe \cap classified.unsafe = {}

\* an Update has returned that classified two callbacks thread-safe and one
\* thread-unsafe: the pool executed the first two, the caller the third
C16_Witness ==
    /\ rqcall.name = "Update"
    /\ upc = "idle"
    /\ classified = [safe |-> {1, 2}, unsafe |-> {3}]
    /\ Len(delivery) = 3
    /\ delivery[3].by = "pool"

\* C17: over pushes and Update calls with any budgets, the callbacks Update
\* found thread-unsafe are executed in the order they were pushed (ids grow
\* with the pushes): of two of them the one pushed first is executed first,
\* and none is executed while one pushed before it still waits, also when
\* the earlier one was left queued by a time-boxed Update.
C17_UnsafeFifo ==
    /\ \A i, j \in 1..Len(delivery) :
           (i < j /\ delivery[i].id \in classified.unsafe
                  /\ delivery[j].id \in classified.unsafe) =>
               delivery[i].id < delivery[j].id
    /\ \A a, b \in classified.unsafe :
           (a < b /\ TimesDelivered(b) > 0) =>
               (TimesDelivered(a) = 1 /\ TimesIn(threadUnsafeWaitingQueries, a) = 0)
    /\ \A i, j \in 1..Len(threadUnsafeWaitingQueries) :
           i < j => threadUnsafeWaitingQueries[i].id < threadUnsafeWaitingQueries[j].id

\* three thread-unsafe callbacks were executed in the order pushed; the
\* second had been left queued by a time-boxed Update that never saw the third
C17_Witness ==
    /\ leftOver = {2}
    /\ classified.unsafe = {1, 2, 3}
    /\ Len(delivery) = 3
    /\ \A i \in 1..3 : delivery[i].id = i /\ delivery[i].by = "caller"

\* C18: with P = pingEveryLoop, the Worker increments loopCounter once per
\* loop iteration, after ProcessRequests, and probes and resets the counter
\* in the iterations in which the counter has reached P: the counter never
\* exceeds P, and an iteration that probes is the P-th since the last one
\* that did (the counter, reset by a probe and incremented once per
\* iteration, counts them).
C18_PingCadence ==
    /\ loopCounter <= pingEveryLoop
    /\ wpc = "reset" => loopCounter = pingEveryLoop

\* the Worker is out of run()'s loop
LeftLoop == wpc \in {"exited", "terminated"} \/ inDtor

\* C19: Stop() clears m_running and changes nothing else, so a sleep or an
\* Execute in progress goes on; m_running never becomes true again; the loop
\* is left only at its test, that is after the iteration in progress has
\* run to its end, and with m_running false no further iteration starts;
\* once left, the loop is not entered again; and a Worker that was stopped
\* eventually leaves the loop (the producers submit finitely many operations).
C19_CooperativeStop ==
    /\ [][(m_running /\ ~m_running') =>
             UNCHANGED <<m_delayQueue, m_serialDelayQueue, wpc, inDtor, loopCounter,
                         nextOp, executed, deleted, connVars, pushVars, holderVars,
                         rqVars>>]_vars
    /\ [][m_running' => m_running]_vars
    /\ [][(wpc = "while" /\ wpc' = "sleep") => m_running]_vars
    /\ [][(~LeftLoop /\ LeftLoop') => (wpc = "while" /\ ~m_running)]_vars
    /\ [][LeftLoop => LeftLoop']_vars
    /\ (~m_running ~> LeftLoop)

\* Stop() was called while the Worker was inside the connection call of an
\* operation of its Serial Queue, in run()'s loop
C19_Witness ==
    /\ ~m_running
    /\ ~inDtor
    /\ wpc = "serial_exec"
    /\ ex["worker"].pc = "call"

\* C20: whenever no Update is in progress, after any pushes, Update calls with
\* any budgets and CancelAll calls, numUnsafeQueries is the number of
\* callbacks in _threadUnsafeWaitingQueries; it is never negative; and it is
\* 0 when an Update with budget 0 has returned.
C20_BacklogCounter ==
    /\ numUnsafeQueries >= 0
    /\ upc = "idle" => numUnsafeQueries = Len(threadUnsafeWaitingQueries)
    /\ (rqcall.name = "Update" /\ rqcall.timeout = 0) => numUnsafeQueries = 0

\* CancelAll has returned from a pending callback while a callback that a
\* time-boxed Update left behind waits in the unsafe queue, counted once
C20_Witness ==
    /\ rqcall.name = "CancelAll"
    /\ Len(rqcall.pending) = 1
    /\ Len(threadUnsafeWaitingQueries) = 1
    /\ numUnsafeQueries = 1
    /\ leftOver # {}

====
